---- MODULE Spec2Model ----
(***************************************************************************)
(* Model of dxpy/bindings/dxjob.py: the DXJob handler (new, set_id,        *)
(* get_id, describe, wait_on_done, terminate, _get_state) and the          *)
(* process-wide registry _test_harness_jobs.                               *)
(*                                                                         *)
(* The external collaborators (os.environ, dxpy.api.jobNew/jobDescribe/    *)
(* jobTerminate, dxpy.run, time.sleep) are the environment: each call      *)
(* draws its outcome (a value or a raised error) from a small set.         *)
(***************************************************************************)
EXTENDS Integers, Sequences, FiniteSets, TLC

\* ---------------------------------------------------------------- bounds
MaxJobs == 2          \* successful detached-mode creations explored
MaxTimeout == 5       \* largest timeout passed to wait_on_done
\* line 122: def wait_on_done(self, interval=2, ...)
DefaultInterval == 2

\* ---------------------------------------------------------------- values
Handles == {"h1", "h2"}
None == "None"
\* what get_id() yields on a handle that was never bound: __init__ (lines 55-58)
\* assigns no _dxid without an argument, the value comes from the base class
\* DXObject, which is documented to leave it empty
Unbound == None
\* identities the gateway issues / callers pass to set_id
GatewayIds == {"job-XYZ"}
RebindIds == {"job-abc", "job-1"}
\* return values of the Local Task Executor (dxpy.run)
RunResults == {"3", "7"}
JobStates == {"running", "idle", "done", "failed", "terminated"}
Intervals == {-1, 0, 1, DefaultInterval}
Timeouts == -1 .. MaxTimeout
\* ghost call counters saturate here (they observe, they never block the code)
PollCap == MaxTimeout + 2

NoErr == [cls |-> "", msg |-> ""]
\* errors raised by the Remote API Gateway (dxpy.api.*)
GatewayErrors == {[cls |-> "GatewayError", msg |-> "transport"],
                  [cls |-> "GatewayError", msg |-> "service"]}
\* errors raised by the Local Task Executor (dxpy.run)
RunErrors == {[cls |-> "ExecutorError", msg |-> "function raised"]}
\* error raised by time.sleep for a negative argument
SleepError == [cls |-> "IOError", msg |-> "Invalid argument"]

VARIABLES
    environ,              \* 'DX_JOB_ID' in os.environ
    dxid,                 \* handle -> self._dxid
    test_harness_result,  \* handle -> self._test_harness_result
    test_harness_jobs,    \* the module-level dict _test_harness_jobs
    pc,                   \* "idle", or the position inside wait_on_done
    self,                 \* the handle of the running / last operation
    frame,                \* locals of wait_on_done: interval, timeout, elapsed, state
    calls,                \* ghost: external calls made by the running / last operation
    lastCall,             \* ghost: the last external call and its arguments
    ret,                  \* ghost: how the last operation ended
    pre,                  \* ghost: local state at the start of the operation
    issued,               \* ghost: identities bound by detached-mode new, in order
    race                  \* threads inside a detached-mode new (concurrent callers only)

vars == <<environ, dxid, test_harness_result, test_harness_jobs, pc, self,
          frame, calls, lastCall, ret, pre, issued, race>>

NoFrame == [interval |-> 0, timeout |-> 0, elapsed |-> 0, state |-> None]
NoCalls == [jobNew |-> 0, run |-> 0, jobDescribe |-> 0, jobTerminate |-> 0,
            sleep |-> 0, pending |-> 0]
\* outcome of an external call: it raised err, or it returned value
\* (value: an identity, a result or a state; desc: a job description)
NoDesc == [state |-> None, io |-> FALSE]
Ok(v) == [raised |-> FALSE, err |-> NoErr, value |-> v, desc |-> NoDesc]
OkDesc(d) == [raised |-> FALSE, err |-> NoErr, value |-> None, desc |-> d]
Err(e) == [raised |-> TRUE, err |-> e, value |-> None, desc |-> NoDesc]
NoCall == [fn |-> None, id |-> None, io |-> FALSE, resp |-> Ok(None)]
Call(fn, id, io, resp) == [fn |-> fn, id |-> id, io |-> io, resp |-> resp]
NoRet == [op |-> None, arg |-> None, status |-> None, err |-> NoErr,
          value |-> None, desc |-> NoDesc]

Bump(c, f) == [c EXCEPT ![f] = IF @ < PollCap THEN @ + 1 ELSE @]
Snapshot(h) == [jobs |-> test_harness_jobs, dxid |-> dxid[h],
                result |-> test_harness_result[h], environ |-> environ]
Returned(op, a, v) == [NoRet EXCEPT !.op = op, !.arg = a, !.status = "ok", !.value = v]
ReturnedDesc(op, d) == [NoRet EXCEPT !.op = op, !.status = "ok", !.desc = d]
Raised(op, a, e) == [NoRet EXCEPT !.op = op, !.arg = a, !.status = "raised", !.err = e]
Running(op, a) == [NoRet EXCEPT !.op = op, !.arg = a, !.status = "running"]

\* two threads, each calling new on a handle of its own
Threads == {"t1", "t2"}
HandleOf(t) == IF t = "t1" THEN "h1" ELSE "h2"
\* no thread inside new. atomic: whether lines 82-83 run under a lock (they do
\* not in the code); lock: its holder; pc, result, newid: each thread's position
\* and locals
NoRace == [atomic |-> FALSE, lock |-> None,
           pc |-> [t \in Threads |-> "idle"],
           result |-> [t \in Threads |-> None],
           newid |-> [t \in Threads |-> None]]

\* ------------------------------------------------------------ pure parts
\* the test inverted: remote dispatch when the marker is absent
InExecutionEnvironmentInverted(env) == ~env

\* line 74: 'DX_JOB_ID' in os.environ
InExecutionEnvironment(env) == env

\* the count not read: every identity is the first one
SyntheticIdAlwaysFirst(jobs) == "job-1"

\* the "+ 1" forgotten: numbering from the count itself
SyntheticIdFromCount(jobs) == "job-" \o ToString(Cardinality(DOMAIN jobs))

\* line 82: "job-" + str(len(_test_harness_jobs) + 1)
SyntheticId(jobs) == "job-" \o ToString(Cardinality(DOMAIN jobs) + 1)

\* the insertion lost
DictSetDropped(jobs, key, h) == jobs

\* line 83: _test_harness_jobs[key] = handle
DictSet(jobs, key, h) == [k \in DOMAIN jobs \cup {key} |-> IF k = key THEN h ELSE jobs[k]]

\* "terminated" reported with the message of "failed"
WaitErrorOneMessage(cause) ==
    CASE cause \in {"failed", "terminated"} ->
              [cls |-> "DXJobFailureError", msg |-> "Job has failed."]
      [] cause = "timeout" -> [cls |-> "DXJobFailureError",
                               msg |-> "Reached timeout while waiting for the job to finish"]

\* lines 139, 141, 144: the DXJobFailureError raised for each cause
WaitError(cause) ==
    CASE cause = "failed"     -> [cls |-> "DXJobFailureError", msg |-> "Job has failed."]
      [] cause = "terminated" -> [cls |-> "DXJobFailureError", msg |-> "Job was terminated."]
      [] cause = "timeout"    -> [cls |-> "DXJobFailureError",
                                  msg |-> "Reached timeout while waiting for the job to finish"]

\* the timeout test moved in front of the terminal states
WaitDecisionTimeoutFirst(st, el, to) ==
    IF el >= to \/ el < 0 THEN "timeout"
    ELSE IF st = "done" THEN "done"
    ELSE IF st = "failed" THEN "failed"
    ELSE IF st = "terminated" THEN "terminated"
    ELSE "sleep"

\* elapsed > timeout in place of elapsed >= timeout
WaitDecisionStrict(st, el, to) ==
    IF st = "done" THEN "done"
    ELSE IF st = "failed" THEN "failed"
    ELSE IF st = "terminated" THEN "terminated"
    ELSE IF el > to \/ el < 0 THEN "timeout"
    ELSE "sleep"

\* "terminated" not recognised: polled like a running job
WaitDecisionIgnoresTerminated(st, el, to) ==
    IF st = "done" THEN "done"
    ELSE IF st = "failed" THEN "failed"
    ELSE IF el >= to \/ el < 0 THEN "timeout"
    ELSE "sleep"

\* lines 136-144: what one iteration decides from the fetched state
WaitDecision(st, el, to) ==
    IF st = "done" THEN "done"
    ELSE IF st = "failed" THEN "failed"
    ELSE IF st = "terminated" THEN "terminated"
    ELSE IF el >= to \/ el < 0 THEN "timeout"
    ELSE "sleep"

\* elapsed counting iterations instead of seconds
NextElapsedByOne(el, iv) == el + 1

\* line 147: elapsed += interval
NextElapsed(el, iv) == el + iv

\* ------------------------------------------------------------------ Init
\* Handles constructed by DXJob() (no identity), empty registry.
Init ==
    /\ environ \in BOOLEAN
    /\ dxid = [h \in Handles |-> Unbound]
    /\ test_harness_result = [h \in Handles |-> None]
    /\ test_harness_jobs = << >>
    /\ pc = "idle"
    /\ self = "h1"
    /\ frame = NoFrame
    /\ calls = NoCalls
    /\ lastCall = NoCall
    /\ ret = NoRet
    /\ pre = [jobs |-> << >>, dxid |-> None, result |-> None, environ |-> environ]
    /\ issued = << >>
    /\ race = NoRace

\* start of any operation on handle h: fresh ghosts, no wait frame
Begin(h) ==
    /\ pc = "idle"
    /\ self' = h
    /\ pre' = Snapshot(h)
    /\ UNCHANGED race

\* --------------------------------------------------------------- actions
\* the environment sets or unsets DX_JOB_ID between operations
SetEnviron ==
    /\ pc = "idle"
    /\ environ' = ~environ
    /\ UNCHANGED <<dxid, test_harness_result, test_harness_jobs, pc, self,
                   frame, calls, lastCall, ret, pre, issued, race>>

\* lines 75-79: remote branch of new
NewRemote(h) ==
    /\ calls' = Bump(NoCalls, "jobNew")
    /\ \/ \E e \in GatewayErrors :
            /\ lastCall' = Call("jobNew", None, FALSE, Err(e))
            /\ ret' = Raised("new", None, e)
            /\ UNCHANGED dxid
       \/ \E id \in GatewayIds :
            /\ lastCall' = Call("jobNew", None, FALSE, Ok(id))
            /\ dxid' = [dxid EXCEPT ![h] = id]
            /\ ret' = Returned("new", None, None)
    /\ UNCHANGED <<test_harness_result, test_harness_jobs, issued>>

\* the identity bound and registered before the executor is run, so that a
\* failing executor leaves them behind
NewDetachedBindsFirst(h) ==
    /\ Cardinality(DOMAIN test_harness_jobs) < MaxJobs
    /\ calls' = Bump(NoCalls, "run")
    /\ dxid' = [dxid EXCEPT ![h] = SyntheticId(test_harness_jobs)]
    /\ test_harness_jobs' = DictSet(test_harness_jobs, dxid'[h], h)
    /\ issued' = Append(issued, dxid'[h])
    /\ \/ \E e \in RunErrors :
            /\ lastCall' = Call("run", None, FALSE, Err(e))
            /\ ret' = Raised("new", None, e)
            /\ UNCHANGED test_harness_result
       \/ \E result \in RunResults :
            /\ lastCall' = Call("run", None, FALSE, Ok(result))
            /\ test_harness_result' = [test_harness_result EXCEPT ![h] = result]
            /\ ret' = Returned("new", None, None)

\* lines 81-84: detached branch of new
NewDetached(h) ==
    /\ Cardinality(DOMAIN test_harness_jobs) < MaxJobs
    /\ calls' = Bump(NoCalls, "run")
    /\ \/ \E e \in RunErrors :
            /\ lastCall' = Call("run", None, FALSE, Err(e))
            /\ ret' = Raised("new", None, e)
            /\ UNCHANGED <<dxid, test_harness_result, test_harness_jobs, issued>>
       \/ \E result \in RunResults :
            /\ lastCall' = Call("run", None, FALSE, Ok(result))
            /\ dxid' = [dxid EXCEPT ![h] = SyntheticId(test_harness_jobs)]
            /\ test_harness_jobs' = DictSet(test_harness_jobs, dxid'[h], h)
            /\ test_harness_result' = [test_harness_result EXCEPT ![h] = result]
            /\ issued' = Append(issued, dxid'[h])
            /\ ret' = Returned("new", None, None)

\* lines 60-84: DXJob.new
New(h) ==
    /\ Begin(h)
    /\ IF InExecutionEnvironment(environ) THEN NewRemote(h) ELSE NewDetached(h)
    /\ frame' = NoFrame
    /\ UNCHANGED <<environ, pc>>

\* lines 86-94: DXJob.set_id
SetId(h, id) ==
    /\ Begin(h)
    /\ dxid' = [dxid EXCEPT ![h] = id]
    /\ ret' = Returned("set_id", id, None)
    /\ calls' = NoCalls
    /\ lastCall' = NoCall
    /\ frame' = NoFrame
    /\ UNCHANGED <<environ, test_harness_result, test_harness_jobs, pc, issued>>

\* lines 96-106: DXJob.get_id
GetId(h) ==
    /\ Begin(h)
    /\ ret' = Returned("get_id", None, dxid[h])
    /\ calls' = NoCalls
    /\ lastCall' = NoCall
    /\ frame' = NoFrame
    /\ UNCHANGED <<environ, dxid, test_harness_result, test_harness_jobs, pc, issued>>

\* what dxpy.api.jobDescribe(id, {"io": io}) can do: raise, or answer a description
JobDescribeOutcomes(io) ==
    {Err(e) : e \in GatewayErrors} \cup {OkDesc([state |-> s, io |-> io]) : s \in JobStates}

\* line 120: describe returns what the gateway call returns or raises
DescribeOutcome(g) == g

\* a gateway error swallowed and polled again as if the job were running
GetStateOutcomeSwallowed(d) ==
    IF d.raised THEN Ok("running") ELSE Ok(d.desc.state)

\* line 168: _get_state is describe(io=False)["state"]
GetStateOutcome(d) ==
    IF d.raised THEN d ELSE Ok(d.desc.state)

\* lines 108-120: DXJob.describe
Describe(h, io) ==
    /\ Begin(h)
    /\ calls' = Bump(NoCalls, "jobDescribe")
    /\ \E g \in JobDescribeOutcomes(io) :
         LET d == DescribeOutcome(g) IN
         /\ lastCall' = Call("jobDescribe", dxid[h], io, g)
         /\ ret' = IF d.raised THEN Raised("describe", None, d.err)
                   ELSE ReturnedDesc("describe", d.desc)
    /\ frame' = NoFrame
    /\ UNCHANGED <<environ, dxid, test_harness_result, test_harness_jobs, pc, issued>>

\* terminate also dropping the handle's identity and local result
TerminateUnbinds(h) ==
    /\ Begin(h)
    /\ calls' = Bump(NoCalls, "jobTerminate")
    /\ \/ \E e \in GatewayErrors :
            /\ lastCall' = Call("jobTerminate", dxid[h], FALSE, Err(e))
            /\ ret' = Raised("terminate", None, e)
       \/ /\ lastCall' = Call("jobTerminate", dxid[h], FALSE, Ok(None))
          /\ ret' = Returned("terminate", None, None)
    /\ dxid' = [dxid EXCEPT ![h] = None]
    /\ test_harness_result' = [test_harness_result EXCEPT ![h] = None]
    /\ frame' = NoFrame
    /\ UNCHANGED <<environ, test_harness_jobs, pc, issued>>

\* lines 149-153: DXJob.terminate
Terminate(h) ==
    /\ Begin(h)
    /\ calls' = Bump(NoCalls, "jobTerminate")
    /\ \/ \E e \in GatewayErrors :
            /\ lastCall' = Call("jobTerminate", dxid[h], FALSE, Err(e))
            /\ ret' = Raised("terminate", None, e)
       \/ /\ lastCall' = Call("jobTerminate", dxid[h], FALSE, Ok(None))
          /\ ret' = Returned("terminate", None, None)
    /\ frame' = NoFrame
    /\ UNCHANGED <<environ, dxid, test_harness_result, test_harness_jobs, pc, issued>>

\* lines 122-133: wait_on_done is entered, elapsed = 0
WaitStart(h, iv, to) ==
    /\ Begin(h)
    /\ frame' = [interval |-> iv, timeout |-> to, elapsed |-> 0, state |-> None]
    /\ pc' = "poll"
    /\ calls' = NoCalls
    /\ lastCall' = NoCall
    /\ ret' = Running("wait_on_done", None)
    /\ UNCHANGED <<environ, dxid, test_harness_result, test_harness_jobs, issued>>

\* lines 135-144: one iteration up to the sleep: fetch the state, decide
WaitPoll ==
    /\ pc = "poll"
    /\ \E g \in JobDescribeOutcomes(FALSE) :
         LET s == GetStateOutcome(DescribeOutcome(g)) IN
         /\ lastCall' = Call("jobDescribe", dxid[self], FALSE, g)
         /\ IF s.raised
            THEN /\ ret' = Raised("wait_on_done", None, s.err)
                 /\ pc' = "idle"
                 /\ calls' = Bump(calls, "jobDescribe")
                 /\ UNCHANGED frame
            ELSE LET dec == WaitDecision(s.value, frame.elapsed, frame.timeout) IN
                 /\ frame' = [frame EXCEPT !.state = s.value]
                 /\ calls' = IF s.value \in {"done", "failed", "terminated"}
                             THEN Bump(calls, "jobDescribe")
                             ELSE Bump(Bump(calls, "jobDescribe"), "pending")
                 /\ pc' = IF dec = "sleep" THEN "sleep" ELSE "idle"
                 /\ ret' = CASE dec = "sleep" -> ret
                             [] dec = "done" -> Returned("wait_on_done", None, None)
                             [] OTHER -> Raised("wait_on_done", None, WaitError(dec))
    /\ UNCHANGED <<environ, dxid, test_harness_result, test_harness_jobs, self,
                   pre, issued, race>>

\* lines 146-147: time.sleep(interval); elapsed += interval.
\* time.sleep of a negative number is platform dependent: it raises, or returns.
WaitSleep ==
    /\ pc = "sleep"
    /\ \/ /\ frame.interval < 0
          /\ lastCall' = Call("sleep", None, FALSE, Err(SleepError))
          /\ ret' = Raised("wait_on_done", None, SleepError)
          /\ pc' = "idle"
          /\ UNCHANGED <<frame, calls>>
       \/ /\ lastCall' = Call("sleep", None, FALSE, Ok(None))
          /\ frame' = [frame EXCEPT !.elapsed = NextElapsed(frame.elapsed, frame.interval)]
          /\ calls' = Bump(calls, "sleep")
          /\ pc' = "poll"
          /\ UNCHANGED ret
    /\ UNCHANGED <<environ, dxid, test_harness_result, test_harness_jobs, self,
                   pre, issued, race>>

Next ==
    \/ SetEnviron
    \/ \E h \in Handles : New(h)
    \/ \E h \in Handles, id \in RebindIds : SetId(h, id)
    \/ \E h \in Handles : GetId(h)
    \/ \E h \in Handles : Describe(h, TRUE)
    \/ \E h \in Handles : Terminate(h)
    \/ \E h \in Handles : WaitStart(h, 1, 1)
    \/ WaitPoll
    \/ WaitSleep

Spec == Init /\ [][Next]_vars

\* ------------------------------------------------- the polling loop alone
\* Handles constructed by DXJob(dxid) (lines 55-58), bound or not; then
\* describe, terminate and wait_on_done with the full range of arguments.
InitWait ==
    /\ environ = TRUE
    /\ dxid \in [Handles -> {Unbound} \cup GatewayIds]
    /\ test_harness_result = [h \in Handles |-> None]
    /\ test_harness_jobs = << >>
    /\ pc = "idle"
    /\ self = "h1"
    /\ frame = NoFrame
    /\ calls = NoCalls
    /\ lastCall = NoCall
    /\ ret = NoRet
    /\ pre = [jobs |-> << >>, dxid |-> dxid["h1"], result |-> None, environ |-> environ]
    /\ issued = << >>
    /\ race = NoRace

NextWait ==
    \/ \E h \in Handles, io \in BOOLEAN : Describe(h, io)
    \/ \E h \in Handles : Terminate(h)
    \/ \E h \in Handles, iv \in Intervals, to \in Timeouts : WaitStart(h, iv, to)
    \/ WaitPoll
    \/ WaitSleep

SpecWait == InitWait /\ [][NextWait]_vars

\* every describe call and every sleep returns, so the loop keeps taking steps
SpecWaitFair == SpecWait /\ WF_vars(WaitPoll) /\ WF_vars(WaitSleep)

\* ------------------------------------------- detached new from two threads
\* DX_JOB_ID unset, both handles fresh, each thread about to enter new; the run
\* is explored without and with a lock around lines 82-83.
InitRace ==
    /\ environ = FALSE
    /\ dxid = [h \in Handles |-> Unbound]
    /\ test_harness_result = [h \in Handles |-> None]
    /\ test_harness_jobs = << >>
    /\ pc = "idle"
    /\ self = "h1"
    /\ frame = NoFrame
    /\ calls = NoCalls
    /\ lastCall = NoCall
    /\ ret = NoRet
    /\ pre = [jobs |-> << >>, dxid |-> None, result |-> None, environ |-> environ]
    /\ issued = << >>
    /\ \E a \in BOOLEAN :
         race = [NoRace EXCEPT !.atomic = a, !.pc = [t \in Threads |-> "run"]]

RaceFrame == UNCHANGED <<environ, pc, self, frame, calls, lastCall, ret, pre>>

\* lines 74, 81: the marker is absent; result = dxpy.run(...), which may raise
RaceRun(t) ==
    /\ race.pc[t] = "run"
    /\ ~InExecutionEnvironment(environ)
    /\ \/ \E e \in RunErrors : race' = [race EXCEPT !.pc[t] = "failed"]
       \/ \E result \in RunResults :
            race' = [race EXCEPT !.pc[t] = "len", !.result[t] = result]
    /\ RaceFrame
    /\ UNCHANGED <<dxid, test_harness_result, test_harness_jobs, issued>>

\* line 82, argument: "job-" + str(len(_test_harness_jobs) + 1) is evaluated
RaceLen(t) ==
    /\ race.pc[t] = "len"
    /\ race.atomic => race.lock = None
    /\ race' = [race EXCEPT !.pc[t] = "bind",
                            !.newid[t] = SyntheticId(test_harness_jobs),
                            !.lock = IF race.atomic THEN t ELSE @]
    /\ RaceFrame
    /\ UNCHANGED <<dxid, test_harness_result, test_harness_jobs, issued>>

\* line 82, call: self.set_id(...)
RaceSetId(t) ==
    /\ race.pc[t] = "bind"
    /\ dxid' = [dxid EXCEPT ![HandleOf(t)] = race.newid[t]]
    /\ issued' = Append(issued, race.newid[t])
    /\ race' = [race EXCEPT !.pc[t] = "insert"]
    /\ RaceFrame
    /\ UNCHANGED <<test_harness_result, test_harness_jobs>>

\* line 83: _test_harness_jobs[self.get_id()] = self
RaceInsert(t) ==
    /\ race.pc[t] = "insert"
    /\ test_harness_jobs' = DictSet(test_harness_jobs, dxid[HandleOf(t)], HandleOf(t))
    /\ race' = [race EXCEPT !.pc[t] = "store",
                            !.lock = IF race.atomic THEN None ELSE @]
    /\ RaceFrame
    /\ UNCHANGED <<dxid, test_harness_result, issued>>

\* line 84: self._test_harness_result = result
RaceStore(t) ==
    /\ race.pc[t] = "store"
    /\ test_harness_result' = [test_harness_result EXCEPT ![HandleOf(t)] = race.result[t]]
    /\ race' = [race EXCEPT !.pc[t] = "done"]
    /\ RaceFrame
    /\ UNCHANGED <<dxid, test_harness_jobs, issued>>

NextRace ==
    \/ \E t \in Threads : RaceRun(t)
    \/ \E t \in Threads : RaceLen(t)
    \/ \E t \in Threads : RaceSetId(t)
    \/ \E t \in Threads : RaceInsert(t)
    \/ \E t \in Threads : RaceStore(t)

SpecRace == InitRace /\ [][NextRace]_vars

\* ----------------------------------------------------------------- claims
\* the identities a run of detached creations is expected to issue, written out
ExpectedIds == <<"job-1", "job-2", "job-3", "job-4", "job-5", "job-6">>
OpEnded(op) == ret.op = op /\ ret.status # "running"

\* C1: after N successful detached-mode creations, in any interleaving with the
\* other operations, the identities issued are job-1 .. job-N in creation order
\* and the registry's key set is exactly {job-1 .. job-N}.
C1_SyntheticIdsSequential ==
    /\ \A i \in 1 .. Len(issued) : issued[i] = ExpectedIds[i]
    /\ DOMAIN test_harness_jobs = {ExpectedIds[i] : i \in 1 .. Len(issued)}
    /\ Cardinality(DOMAIN test_harness_jobs) = Len(issued)

\* N = MaxJobs detached creations with a remote creation and a rebinding in between
C1_Witness ==
    /\ Len(issued) = MaxJobs
    /\ \E h \in Handles : dxid[h] \in GatewayIds
    /\ OpEnded("set_id")

\* C2: with the marker present one call to new makes exactly one gateway create
\* call, no executor call and leaves the registry alone; with the marker absent
\* it makes exactly one executor call and no gateway create call.
C2_ModeBranching ==
    OpEnded("new") =>
        IF pre.environ
        THEN /\ calls.jobNew = 1 /\ calls.run = 0
             /\ test_harness_jobs = pre.jobs
        ELSE /\ calls.run = 1 /\ calls.jobNew = 0

\* a remote-mode new that succeeded while the registry held entries
C2_Witness ==
    /\ OpEnded("new") /\ ret.status = "ok" /\ pre.environ
    /\ calls.jobNew = 1
    /\ DOMAIN test_harness_jobs # {}

\* C3: when new returns without error the handle is bound: in remote mode to the
\* id of the gateway's response; in detached mode to "job-" + (registry size
\* before + 1), the registry has exactly one more entry, mapping that identity to
\* this handle, and the handle's result is the executor's return value.
C3_NewBinds ==
    (OpEnded("new") /\ ret.status = "ok") =>
        /\ dxid[self] # None
        /\ pre.environ => dxid[self] = lastCall.resp.value
        /\ ~pre.environ =>
              /\ dxid[self] = ExpectedIds[Cardinality(DOMAIN pre.jobs) + 1]
              /\ dxid[self] \notin DOMAIN pre.jobs
              /\ DOMAIN test_harness_jobs = DOMAIN pre.jobs \cup {dxid[self]}
              /\ test_harness_jobs[dxid[self]] = self
              /\ \A k \in DOMAIN pre.jobs : test_harness_jobs[k] = pre.jobs[k]
              /\ test_harness_result[self] = lastCall.resp.value
              /\ test_harness_result[self] \in RunResults

\* a detached-mode new on a handle that was already registered: second entry
C3_Witness ==
    /\ OpEnded("new") /\ ret.status = "ok" /\ ~pre.environ
    /\ dxid[self] = "job-2"
    /\ pre.dxid = "job-1"
    /\ test_harness_result[self] # pre.result
\* ------------------------------------------------------------ wait_on_done
Terminal == {"done", "failed", "terminated"}
WaitEnded == OpEnded("wait_on_done")
\* the ghost counters are exact below PollCap
Counted == calls.jobDescribe < PollCap
CeilDiv(t, i) == (t + i - 1) \div i

\* C4: in every iteration the three terminal states are examined before the
\* timeout: a describe answer of done ends the wait successfully, failed and
\* terminated end it with their own error, whatever elapsed and timeout are.
C4_TerminalBeforeTimeout ==
    (WaitEnded /\ lastCall.fn = "jobDescribe" /\ ~lastCall.resp.raised) =>
        /\ lastCall.resp.desc.state = "done" => ret.status = "ok"
        /\ lastCall.resp.desc.state = "failed" =>
              ret.status = "raised" /\ ret.err.msg = "Job has failed."
        /\ lastCall.resp.desc.state = "terminated" =>
              ret.status = "raised" /\ ret.err.msg = "Job was terminated."

\* timeout 0 and the first describe answers done: success, elapsed >= timeout
C4_Witness ==
    /\ WaitEnded /\ ret.status = "ok"
    /\ frame.timeout = 0 /\ frame.elapsed >= frame.timeout
    /\ calls.jobDescribe = 1
    /\ lastCall.resp.desc.state = "done"

\* C5: for a positive interval I and a timeout T >= 0 the timeout error is raised
\* when elapsed is the smallest multiple of I that is >= T, after exactly
\* ceil(T/I) sleeps; with I = 2 and T = 5: after 3 sleeps, elapsed = 6.
C5_TimeoutBoundary ==
    (ret.op = "wait_on_done" /\ frame.interval > 0 /\ frame.timeout >= 0) =>
        /\ frame.elapsed = frame.interval * calls.sleep
        /\ calls.sleep <= CeilDiv(frame.timeout, frame.interval)
        /\ pc = "sleep" => frame.elapsed < frame.timeout
        /\ (WaitEnded /\ ret.err = WaitError("timeout")) =>
              /\ calls.sleep = CeilDiv(frame.timeout, frame.interval)
              /\ frame.elapsed >= frame.timeout
              /\ frame.elapsed - frame.interval < frame.timeout
              /\ calls.jobDescribe = calls.sleep + 1
              /\ (frame.interval = 2 /\ frame.timeout = 5) =>
                    calls.sleep = 3 /\ frame.elapsed = 6

\* interval 2, timeout 5, every describe non-terminal: timeout after 3 sleeps
C5_Witness ==
    /\ WaitEnded /\ ret.err = WaitError("timeout")
    /\ frame.interval = 2 /\ frame.timeout = 5
    /\ calls.sleep = 3 /\ frame.elapsed = 6 /\ calls.pending = 4
MsgFailed == "Job has failed."
MsgTerminated == "Job was terminated."
MsgTimeout == "Reached timeout while waiting for the job to finish"
\* wait_on_done ended by one of its own three failures
WaitFailedItself ==
    /\ WaitEnded /\ ret.status = "raised"
    /\ ret.err \notin GatewayErrors \cup {SleepError}
\* the failure is raised in the iteration that observed the state: the last
\* external call is that describe, no sleep and no describe follows it
C6_SameIteration ==
    WaitFailedItself =>
        /\ lastCall.fn = "jobDescribe" /\ ~lastCall.resp.raised
        /\ lastCall.resp.desc.state = frame.state
        /\ frame.state = "failed" => ret.err.msg = MsgFailed
        /\ frame.state = "terminated" => ret.err.msg = MsgTerminated
        /\ frame.state \notin Terminal =>
              /\ ret.err.msg = MsgTimeout
              /\ frame.elapsed >= frame.timeout \/ frame.elapsed < 0
        /\ frame.state # "done"
        /\ Counted => calls.jobDescribe = calls.sleep + 1

WaitCutShort ==
    /\ WaitEnded /\ ret.status = "raised"
    /\ ret.err = WaitError("timeout") \/ ret.err = SleepError
\* some iteration i among those run so far had i * interval >= timeout
BudgetReached ==
    \E i \in 0 .. calls.pending - 1 : i * frame.interval >= frame.timeout
\* a successful return follows a done answer after one sleep per non-terminal answer
C7_ReturnAfterKSleeps ==
    (WaitEnded /\ ret.status = "ok") =>
        /\ frame.state = "done" /\ lastCall.fn = "jobDescribe"
        /\ Counted =>
              /\ calls.sleep = calls.pending
              /\ calls.jobDescribe = calls.pending + 1
              /\ frame.elapsed = calls.pending * frame.interval

\* C7 as stated: k non-terminal answers then done, with i * interval < timeout for
\* all i < k, make the wait return after exactly k sleeps: so the wait is never cut
\* short while every iteration so far had i * interval < timeout.
C7_Original ==
    /\ C7_ReturnAfterKSleeps
    /\ (WaitCutShort /\ Counted) => BudgetReached

\* C7 amended: the same for a non-negative interval (0 <= i * interval < timeout).
C7_NonNegativeInterval ==
    /\ C7_ReturnAfterKSleeps
    /\ (WaitCutShort /\ Counted /\ frame.interval >= 0) => BudgetReached

\* running (or idle) then done with interval 1: returned after one sleep of 1
C7_Witness ==
    /\ WaitEnded /\ ret.status = "ok"
    /\ frame.interval = 1 /\ calls.pending = 1 /\ calls.sleep = 1
    /\ frame.elapsed = 1 /\ frame.timeout > 0

\* C8: for every timeout and every interval, positive, zero or negative, and
\* every sequence of describe answers, wait_on_done terminates.
C8_WaitTerminates == (pc # "idle") ~> (pc = "idle")

\* C9: set_id(id) makes get_id() return id, also when repeated, and on a handle
\* created in detached mode it leaves no local result on the handle.
C9_RebindLeavesNoResult ==
    OpEnded("set_id") =>
        /\ dxid[self] = ret.arg
        /\ test_harness_result[self] = None

\* C10: gateway errors are neither swallowed nor retried: a describe that fails
\* inside wait_on_done ends the wait at once with that error, no describe and no
\* sleep after it; describe and terminate make exactly one gateway call each and
\* raise its error, or return its answer, unchanged.
C10_GatewayErrorsPropagate ==
    /\ (ret.op = "wait_on_done" /\ lastCall.fn = "jobDescribe" /\ lastCall.resp.raised) =>
          /\ pc = "idle" /\ ret.status = "raised"
          /\ ret.err = lastCall.resp.err
          /\ Counted => calls.jobDescribe = calls.sleep + 1
    /\ (ret.op = "wait_on_done" /\ ret.err \in GatewayErrors) =>
          lastCall.fn = "jobDescribe" /\ lastCall.resp = Err(ret.err)
    /\ OpEnded("describe") =>
          /\ calls = [NoCalls EXCEPT !.jobDescribe = 1]
          /\ lastCall.fn = "jobDescribe" /\ lastCall.id = dxid[self]
          /\ IF lastCall.resp.raised
             THEN ret.status = "raised" /\ ret.err = lastCall.resp.err
             ELSE /\ ret.status = "ok" /\ ret.desc = lastCall.resp.desc
                  /\ ret.desc.io = lastCall.io /\ ret.desc.state \in JobStates
    /\ OpEnded("terminate") =>
          /\ calls = [NoCalls EXCEPT !.jobTerminate = 1]
          /\ lastCall.fn = "jobTerminate" /\ lastCall.id = dxid[self]
          /\ IF lastCall.resp.raised
             THEN ret.status = "raised" /\ ret.err = lastCall.resp.err
             ELSE ret.status = "ok"

\* a describe failing in the third iteration of a wait
C10_Witness ==
    /\ WaitEnded /\ ret.err \in GatewayErrors
    /\ calls.sleep = 2 /\ calls.jobDescribe = 3
\* C11: a failing new changes nothing: when the gateway create call or the
\* executor raises, new raises that error and the identity and result of every
\* handle and the registry are as before the call.
C11_FailedNewChangesNothing ==
    [][(ret'.op = "new" /\ ret'.status = "raised") =>
          /\ UNCHANGED <<dxid, test_harness_result, test_harness_jobs, issued>>
          /\ lastCall'.resp.raised /\ ret'.err = lastCall'.resp.err
          /\ lastCall'.fn = IF pre'.environ THEN "jobNew" ELSE "run"]_vars

\* the executor failing on a handle that is registered and holds a result
C11_Witness ==
    /\ OpEnded("new") /\ ret.status = "raised" /\ ~pre.environ
    /\ ret.err \in RunErrors
    /\ dxid[self] = "job-1" /\ test_harness_result[self] \in RunResults
    /\ DOMAIN test_harness_jobs = {"job-1"}
\* C12: on a handle that was never bound get_id() returns the empty value and
\* does not fail, and describe, wait_on_done and terminate fail with
\* UnboundHandleError without calling the gateway.
C12_UnboundHandleRejected ==
    /\ (OpEnded("get_id") /\ pre.dxid = Unbound) =>
          ret.status = "ok" /\ ret.value = Unbound
    /\ (ret.op \in {"describe", "terminate", "wait_on_done"} /\ pre.dxid = Unbound) =>
          /\ calls.jobDescribe = 0 /\ calls.jobTerminate = 0
          /\ ret.status # "running" =>
                ret.status = "raised" /\ ret.err.cls = "UnboundHandleError"
\* C13: terminate, describe and wait_on_done change no local state, whatever
\* the gateway answers: the identity and result of every handle and the registry
\* are the same after each of their steps as before; terminate makes exactly one
\* gateway terminate call for the handle's identity, no describe call and no
\* sleep, and is over at once.
C13_NoLocalStateChange ==
    [][(ret'.op \in {"describe", "terminate", "wait_on_done"}) =>
          /\ UNCHANGED <<dxid, test_harness_result, test_harness_jobs, issued>>
          /\ ret'.op = "terminate" =>
                /\ calls' = [NoCalls EXCEPT !.jobTerminate = 1]
                /\ lastCall'.fn = "jobTerminate" /\ lastCall'.id = dxid[self']
                /\ pc' = "idle" /\ ret'.status \in {"ok", "raised"}]_vars

\* terminate raising a gateway error on a registered handle that holds a result
C13_Witness ==
    /\ OpEnded("terminate") /\ ret.status = "raised"
    /\ dxid[self] \in DOMAIN test_harness_jobs
    /\ test_harness_result[self] \in RunResults
    /\ calls.jobTerminate = 1 /\ calls.jobDescribe = 0 /\ calls.sleep = 0
\* --------------------------------------------------------- concurrent new
RaceOver == \A t \in Threads : race.pc[t] \in {"done", "failed"}
Created == {t \in Threads : race.pc[t] = "done"}
SharedIdentity ==
    \E t, u \in Created : t # u /\ dxid[HandleOf(t)] = dxid[HandleOf(u)]

\* C14: size read, binding and insertion of detached new are separate steps
\* without mutual exclusion: when two threads have run new on different handles
\* the registry can hold fewer entries than there were successful creations, which
\* happens exactly when both handles got the same identity; with size-read-then-
\* insert as one atomic step the identities are job-1 .. job-N, all different,
\* and the registry has one entry for each.
C14_RaceUnlessAtomic ==
    RaceOver =>
        /\ Cardinality(DOMAIN test_harness_jobs) <= Cardinality(Created)
        /\ Cardinality(DOMAIN test_harness_jobs) < Cardinality(Created) <=> SharedIdentity
        /\ \A t \in Created : test_harness_result[HandleOf(t)] = race.result[t]
        /\ race.atomic =>
              /\ ~SharedIdentity
              /\ DOMAIN test_harness_jobs = {ExpectedIds[i] : i \in 1 .. Cardinality(Created)}
              /\ \A t \in Created :
                    /\ dxid[HandleOf(t)] \in DOMAIN test_harness_jobs
                    /\ test_harness_jobs[dxid[HandleOf(t)]] = HandleOf(t)

\* no lock: both creations succeeded, both handles are job-1, one registry entry
C14_Witness ==
    /\ RaceOver /\ ~race.atomic
    /\ Created = Threads
    /\ dxid["h1"] = "job-1" /\ dxid["h2"] = "job-1"
    /\ Cardinality(DOMAIN test_harness_jobs) = 1
\* C15: polling protocol of wait_on_done: every iteration begins with one fresh
\* describe call with io = false for the handle's current identity; a sleep
\* follows only a describe that answered a non-terminal state with the timeout
\* condition false; so at every describe call elapsed = interval * sleeps so far,
\* and when the wait ends by return, failed, terminated or timeout the number
\* of describe calls is the number of sleeps plus one.
C15_PollingProtocol ==
    ret.op = "wait_on_done" =>
        /\ lastCall.fn \in {None, "jobDescribe", "sleep"}
        /\ lastCall.fn = "jobDescribe" =>
              /\ lastCall.io = FALSE /\ lastCall.id = dxid[self]
              /\ ~lastCall.resp.raised =>
                    lastCall.resp.desc = [state |-> frame.state, io |-> FALSE]
        /\ Counted => frame.elapsed = frame.interval * calls.sleep
        /\ (pc = "poll" /\ Counted) =>
              /\ calls.jobDescribe = calls.sleep
              /\ lastCall.fn = IF calls.sleep = 0 THEN None ELSE "sleep"
        /\ pc = "sleep" =>
              /\ lastCall.fn = "jobDescribe" /\ ~lastCall.resp.raised
              /\ frame.state \in JobStates \ Terminal
              /\ ~(frame.elapsed >= frame.timeout \/ frame.elapsed < 0)
              /\ Counted => calls.jobDescribe = calls.sleep + 1
        /\ (WaitEnded /\ Counted /\ (ret.status = "ok" \/ WaitFailedItself)) =>
              calls.jobDescribe = calls.sleep + 1

\* three describe calls and two sleeps of 2 seconds, then done
C15_Witness ==
    /\ WaitEnded /\ ret.status = "ok"
    /\ frame.interval = 2 /\ frame.elapsed = 4
    /\ calls.sleep = 2 /\ calls.jobDescribe = 3
\* C16 as stated: after any sequence of new and set_id calls every registry
\* entry maps a key k to a handle whose current identity is k, and no handle is
\* registered under more than one key.
C16_Original ==
    /\ \A k \in DOMAIN test_harness_jobs : dxid[test_harness_jobs[k]] = k
    /\ \A k1, k2 \in DOMAIN test_harness_jobs :
          test_harness_jobs[k1] = test_harness_jobs[k2] => k1 = k2

\* what the registry does keep: an entry is inserted only by a successful
\* detached new, under the identity that new has just bound to the inserting
\* handle, and is never changed or removed afterwards; the handle's identity
\* stays equal to the key until set_id or another new on that handle rebinds it.
RegistryEntriesFixedAtInsertion ==
    [][/\ \A k \in DOMAIN test_harness_jobs :
             /\ k \in DOMAIN test_harness_jobs'
             /\ test_harness_jobs'[k] = test_harness_jobs[k]
             /\ (dxid[test_harness_jobs[k]] = k /\ dxid'[test_harness_jobs[k]] # k) =>
                   ret'.op \in {"set_id", "new"} /\ self' = test_harness_jobs[k]
       /\ \A k \in DOMAIN test_harness_jobs' \ DOMAIN test_harness_jobs :
             /\ test_harness_jobs'[k] = self' /\ dxid'[self'] = k
             /\ ret'.op = "new" /\ ret'.status = "ok" /\ ~pre'.environ]_vars

\* h1 created twice in detached mode, then rebound: registered under job-1 and
\* job-2 while its identity is job-abc
RegistryStaleAndDouble ==
    /\ DOMAIN test_harness_jobs = {"job-1", "job-2"}
    /\ test_harness_jobs["job-1"] = "h1" /\ test_harness_jobs["job-2"] = "h1"
    /\ dxid["h1"] = "job-abc"
====
